---- MODULE Spec2Model ----
(***************************************************************************)
(* Model of docs/merge_csv_text.py: the script that scans its directory    *)
(* for *.csv files, extracts the "Text" column of each and writes the      *)
(* space-joined entries to merged_vocabulary.txt.                          *)
(*                                                                         *)
(* A string is a sequence of one-character strings.  The state is the      *)
(* directory (its listing, the parsed content of each CSV file, the        *)
(* content of the output file) together with the script's variables and    *)
(* its position (pc).                                                      *)
(***************************************************************************)
EXTENDS Integers, Sequences, FiniteSets, TLC

VARIABLES
    listing,      \* the directory, in the order a scan of it returns the names
    files,        \* name of a CSV file -> its parsed content
    outExists,    \* merged_vocabulary.txt exists
    outContent,   \* its content (a string), <<>> when it does not exist
    pc,           \* position of the script
    csv_files,    \* line 13
    all_text,     \* line 20
    idx,          \* position of the for loop of line 22 in csv_files
    rowIdx,       \* position of reader (line 34) in the rows of the open file
    row_count,    \* line 33
    merged_text,  \* line 43
    openFiles,    \* names of the files this process holds open
    console,      \* what the script has printed, in order
    error,        \* the exception that ended the run, "" if none
    run,          \* "first" or "second" run of the script on this directory
    outAtStart,   \* content of the output file when the current run started
    existedAtStart, \* whether the output file existed then
    outOpens,     \* times the current run opened the output file
    outWrites     \* times the current run wrote to the output file

vars == <<listing, files, outExists, outContent, pc, csv_files, all_text, idx,
          rowIdx, row_count, merged_text, openFiles, console, error, run,
          outAtStart, existedAtStart, outOpens, outWrites>>

----------------------------------------------------------------------------
(* Bounds and the universe of inputs *)

\* total number of data rows over all the CSV files of the directory
MaxRows == 2

CsvStems == {"a", "b"}

CsvName(s) == [stem |-> s, ext |-> "csv"]

CsvNames == {CsvName(s) : s \in CsvStems}

Whitespace == {" ", "\t"}

\* values of one CSV cell: empty, whitespace only, padded text with an inner
\* run of two spaces, plain text
Cells ==
    { <<>>,
      <<" ", "\t">>,
      <<" ", "a", " ", " ", "b", " ">>,
      <<"c">> }

\* parsed data rows: a full row Name,<cell>, and a short row with one field
Rows == {<<(<<"x">>), c>> : c \in Cells} \cup {<<(<<"x">>)>>}

\* the header row that names the required column
TextHeaders == {<<"Name", "Text">>}

\* files whose header row lacks the required column (the match is
\* case-sensitive, so "text" is not "Text")
FilesWithoutText ==
    { [hasHeader |-> TRUE, fieldnames |-> <<"Name", "Value">>, rows |-> <<>>],
      [hasHeader |-> TRUE, fieldnames |-> <<"Name", "text">>,
       rows |-> <<(<<(<<"x">>), (<<"c">>)>>)>>] }

RECURSIVE SeqsUpTo(_, _)
SeqsUpTo(S, n) ==
    IF n = 0 THEN {<<>>}
    ELSE LET shorter == SeqsUpTo(S, n - 1)
         IN  shorter \cup {Append(q, x) : q \in {r \in shorter : Len(r) = n - 1}, x \in S}

\* parsed content of a CSV file: hasHeader is FALSE for a zero-length file
FileContents ==
    {[hasHeader |-> FALSE, fieldnames |-> <<>>, rows |-> <<>>]}
    \cup FilesWithoutText
    \cup {[hasHeader |-> TRUE, fieldnames |-> h, rows |-> rs] :
             h \in TextHeaders, rs \in SeqsUpTo(Rows, MaxRows)}

\* content an output file left by an earlier use may hold
OldContents == {<<"o", "l", "d">>}

----------------------------------------------------------------------------
(* Strings *)

IsSpace(c) == c \in Whitespace

RECURSIVE LStrip(_)
LStrip(s) ==
    IF s = <<>> THEN <<>>
    ELSE IF IsSpace(Head(s)) THEN LStrip(Tail(s)) ELSE s

RECURSIVE RStrip(_)
RStrip(s) ==
    IF s = <<>> THEN <<>>
    ELSE IF IsSpace(s[Len(s)]) THEN RStrip(SubSeq(s, 1, Len(s) - 1)) ELSE s

StripLeftOnly(s) == LStrip(s)

\* str.strip() of line 35
Strip(s) == RStrip(LStrip(s))

RECURSIVE JoinFrom(_, _, _)
JoinFrom(sep, list, k) ==
    IF k > Len(list) THEN <<>>
    ELSE IF k = Len(list) THEN list[k]
    ELSE list[k] \o sep \o JoinFrom(sep, list, k + 1)

RECURSIVE ConcatFrom(_, _, _)
ConcatFrom(sep, list, k) ==
    IF k > Len(list) THEN <<>>
    ELSE list[k] \o sep \o ConcatFrom(sep, list, k + 1)

JoinTrailing(sep, list) == ConcatFrom(sep, list, 1)

\* sep.join(list) of line 43
Join(sep, list) == JoinFrom(sep, list, 1)

\* len(s.split()) of line 52: the number of maximal runs of non-whitespace
SplitCount(s) ==
    Cardinality({i \in 1..Len(s) :
        /\ ~IsSpace(s[i])
        /\ (i = 1 \/ IsSpace(s[i - 1]))})

----------------------------------------------------------------------------
(* The directory and csv.DictReader *)

OutName == [stem |-> "merged_vocabulary", ext |-> "txt"]

NoName == [stem |-> "", ext |-> ""]

\* glob.glob(os.path.join(script_dir, "*.csv")) of line 13: the names of the
\* directory that end in .csv, in the order the directory lists them
Glob(dir) == SelectSeq(dir, LAMBDA n : n.ext = "csv")

Range(q) == {q[i] : i \in 1..Len(q)}

\* key in reader.fieldnames (line 29), for a file that has a header row
Contains(fieldnames, key) == key \in Range(fieldnames)

\* csv.DictReader builds each row as dict(zip(fieldnames, row)): of two equal
\* field names the last one wins
KeyIndex(fieldnames, key) ==
    CHOOSE i \in 1..Len(fieldnames) :
        /\ fieldnames[i] = key
        /\ \A j \in 1..Len(fieldnames) : fieldnames[j] = key => j <= i

\* a row shorter than the header gets restval (None) for the missing keys
RowIsNone(fieldnames, row, key) == KeyIndex(fieldnames, key) > Len(row)

\* row[key] (line 35) when it is a string
RowGet(fieldnames, row, key) == row[KeyIndex(fieldnames, key)]

Msg(kind, file, n) == [kind |-> kind, file |-> file, n |-> n]

RECURSIVE NameLines(_, _)
NameLines(names, k) ==
    IF k > Len(names) THEN <<>>
    ELSE <<Msg("Name", names[k], 0)>> \o NameLines(names, k + 1)

AppendMode(old) == old

\* open(output_file, 'w') of line 47 truncates the file
TruncateMode(old) == <<>>

KeepOpen(open, name) == open

\* leaving the with block of line 25 (normally, by continue or by an
\* exception) closes the file
Close(open, name) == open \ {name}

LoopDoneOneEarly(i, names) == i >= Len(names)

\* the for loop of line 22 is exhausted
LoopDone(i, names) == i > Len(names)

InsertAt(q, p, x) == SubSeq(q, 1, p) \o <<x>> \o SubSeq(q, p + 1, Len(q))

----------------------------------------------------------------------------
(* Initial states: a directory holding some CSV files and possibly an old  *)
(* output file; the script has not started                                 *)

Orders(S) ==
    {q \in [1..Cardinality(S) -> S] : \A i, j \in 1..Cardinality(S) : q[i] = q[j] => i = j}

RECURSIVE SumRows(_, _)
SumRows(f, S) ==
    IF S = {} THEN 0
    ELSE LET n == CHOOSE x \in S : TRUE
         IN  Len(f[n].rows) + SumRows(f, S \ {n})

Init ==
    /\ \E present \in SUBSET CsvNames :
          /\ files \in [present -> FileContents]
          /\ \E withOut \in BOOLEAN :
                /\ outExists = withOut
                /\ listing \in Orders(present \cup (IF withOut THEN {OutName} ELSE {}))
    /\ SumRows(files, DOMAIN files) <= MaxRows
    /\ outContent \in (IF outExists THEN OldContents ELSE {<<>>})
    /\ pc = "start"
    /\ csv_files = <<>>
    /\ all_text = <<>>
    /\ idx = 1
    /\ rowIdx = 1
    /\ row_count = 0
    /\ merged_text = <<>>
    /\ openFiles = {}
    /\ console = <<>>
    /\ error = ""
    /\ run = "first"
    /\ outAtStart = outContent
    /\ existedAtStart = outExists
    /\ outOpens = 0
    /\ outWrites = 0

----------------------------------------------------------------------------
(* The script, statement by statement *)

disk == <<listing, files, outExists, outContent>>

history == <<run, outAtStart, existedAtStart>>

CurrentFile == csv_files[idx]

\* lines 12-20
Start ==
    /\ pc = "start"
    /\ csv_files' = Glob(listing)
    /\ console' = <<Msg("Found", NoName, Len(Glob(listing)))>> \o NameLines(Glob(listing), 1)
    /\ all_text' = <<>>
    /\ idx' = 1
    /\ pc' = "loop"
    /\ UNCHANGED <<disk, rowIdx, row_count, merged_text, openFiles, error, history,
                   outOpens, outWrites>>

\* lines 22-23
LoopNext ==
    /\ pc = "loop"
    /\ ~LoopDone(idx, csv_files)
    /\ console' = Append(console, Msg("Processing", CurrentFile, 0))
    /\ pc' = "open"
    /\ UNCHANGED <<disk, csv_files, all_text, idx, rowIdx, row_count, merged_text,
                   openFiles, error, history, outOpens, outWrites>>

\* line 22, no file left
LoopEnd ==
    /\ pc = "loop"
    /\ LoopDone(idx, csv_files)
    /\ pc' = "merge"
    /\ UNCHANGED <<disk, csv_files, all_text, idx, rowIdx, row_count, merged_text,
                   openFiles, console, error, history, outOpens, outWrites>>

\* lines 25-26
OpenSource ==
    /\ pc = "open"
    /\ openFiles' = openFiles \cup {CurrentFile}
    /\ rowIdx' = 1
    /\ pc' = "check"
    /\ UNCHANGED <<disk, csv_files, all_text, idx, row_count, merged_text, console,
                   error, history, outOpens, outWrites>>

\* line 25, open raises OSError
OpenSourceFails ==
    /\ pc = "open"
    /\ error' = "OSError"
    /\ pc' = "crashed"
    /\ UNCHANGED <<disk, csv_files, all_text, idx, rowIdx, row_count, merged_text,
                   openFiles, console, history, outOpens, outWrites>>

\* line 29 on a zero-length file: reader.fieldnames is None and
\* 'Text' not in None raises TypeError
CheckNoHeader ==
    /\ pc = "check"
    /\ ~files[CurrentFile].hasHeader
    /\ error' = "TypeError"
    /\ openFiles' = Close(openFiles, CurrentFile)
    /\ pc' = "crashed"
    /\ UNCHANGED <<disk, csv_files, all_text, idx, rowIdx, row_count, merged_text,
                   console, history, outOpens, outWrites>>

\* the skip of lines 29-31 without its print
CheckSkipSilently ==
    /\ pc = "check"
    /\ files[CurrentFile].hasHeader
    /\ ~Contains(files[CurrentFile].fieldnames, "Text")
    /\ openFiles' = Close(openFiles, CurrentFile)
    /\ idx' = idx + 1
    /\ pc' = "loop"
    /\ UNCHANGED <<disk, csv_files, all_text, rowIdx, row_count, merged_text, error,
                   history, outOpens, outWrites, console>>

\* lines 29-31
CheckSkip ==
    /\ pc = "check"
    /\ files[CurrentFile].hasHeader
    /\ ~Contains(files[CurrentFile].fieldnames, "Text")
    /\ console' = Append(console, Msg("Warning", CurrentFile, 0))
    /\ openFiles' = Close(openFiles, CurrentFile)
    /\ idx' = idx + 1
    /\ pc' = "loop"
    /\ UNCHANGED <<disk, csv_files, all_text, rowIdx, row_count, merged_text, error,
                   history, outOpens, outWrites>>

\* lines 29 and 33
CheckOk ==
    /\ pc = "check"
    /\ files[CurrentFile].hasHeader
    /\ Contains(files[CurrentFile].fieldnames, "Text")
    /\ row_count' = 0
    /\ pc' = "rows"
    /\ UNCHANGED <<disk, csv_files, all_text, idx, rowIdx, merged_text, openFiles,
                   console, error, history, outOpens, outWrites>>

\* lines 34-38, one iteration on a row that has a Text value
ReadRow ==
    /\ pc = "rows"
    /\ rowIdx <= Len(files[CurrentFile].rows)
    /\ LET f    == files[CurrentFile]
           row  == f.rows[rowIdx]
       IN  /\ ~RowIsNone(f.fieldnames, row, "Text")
           /\ LET text == Strip(RowGet(f.fieldnames, row, "Text"))
              IN  IF text # <<>>
                  THEN /\ all_text' = Append(all_text, text)
                       /\ row_count' = row_count + 1
                  ELSE UNCHANGED <<all_text, row_count>>
    /\ rowIdx' = rowIdx + 1
    /\ UNCHANGED <<disk, pc, csv_files, idx, merged_text, openFiles, console, error,
                   history, outOpens, outWrites>>

\* line 35 on a row shorter than the header: row['Text'] is None and
\* None.strip() raises AttributeError
ReadShortRow ==
    /\ pc = "rows"
    /\ rowIdx <= Len(files[CurrentFile].rows)
    /\ RowIsNone(files[CurrentFile].fieldnames, files[CurrentFile].rows[rowIdx], "Text")
    /\ error' = "AttributeError"
    /\ openFiles' = Close(openFiles, CurrentFile)
    /\ pc' = "crashed"
    /\ UNCHANGED <<disk, csv_files, all_text, idx, rowIdx, row_count, merged_text,
                   console, history, outOpens, outWrites>>

\* line 34 exhausted, line 40, end of the with block
EndRows ==
    /\ pc = "rows"
    /\ rowIdx > Len(files[CurrentFile].rows)
    /\ console' = Append(console, Msg("Extracted", CurrentFile, row_count))
    /\ openFiles' = Close(openFiles, CurrentFile)
    /\ idx' = idx + 1
    /\ pc' = "loop"
    /\ UNCHANGED <<disk, csv_files, all_text, rowIdx, row_count, merged_text, error,
                   history, outOpens, outWrites>>

\* line 43
Merge ==
    /\ pc = "merge"
    /\ merged_text' = Join(<<" ">>, all_text)
    /\ pc' = "write_open"
    /\ UNCHANGED <<disk, csv_files, all_text, idx, rowIdx, row_count, openFiles,
                   console, error, history, outOpens, outWrites>>

\* lines 46-47: the file is created if missing (the place the directory
\* lists a new name at is not specified) and truncated
OpenOutput ==
    /\ pc = "write_open"
    /\ outExists' = TRUE
    /\ IF outExists
       THEN listing' = listing
       ELSE \E p \in 0..Len(listing) : listing' = InsertAt(listing, p, OutName)
    /\ outContent' = TruncateMode(outContent)
    /\ openFiles' = openFiles \cup {OutName}
    /\ outOpens' = outOpens + 1
    /\ pc' = "write"
    /\ UNCHANGED <<files, csv_files, all_text, idx, rowIdx, row_count, merged_text,
                   console, error, history, outWrites>>

\* line 47, open raises OSError (unwritable output path)
OpenOutputFails ==
    /\ pc = "write_open"
    /\ error' = "OSError"
    /\ pc' = "crashed"
    /\ UNCHANGED <<disk, csv_files, all_text, idx, rowIdx, row_count, merged_text,
                   openFiles, console, history, outOpens, outWrites>>

\* line 48 and the end of the with block
WriteOutput ==
    /\ pc = "write"
    /\ outContent' = outContent \o merged_text
    /\ outWrites' = outWrites + 1
    /\ openFiles' = Close(openFiles, OutName)
    /\ pc' = "summary"
    /\ UNCHANGED <<listing, files, outExists, csv_files, all_text, idx, rowIdx,
                   row_count, merged_text, console, error, history, outOpens>>

\* lines 50-52
Summary ==
    /\ pc = "summary"
    /\ console' = console \o <<Msg("Written", OutName, 0),
                               Msg("Chars", NoName, Len(merged_text)),
                               Msg("Words", NoName, SplitCount(merged_text))>>
    /\ pc' = "done"
    /\ UNCHANGED <<disk, csv_files, all_text, idx, rowIdx, row_count, merged_text,
                   openFiles, error, history, outOpens, outWrites>>

\* the script is run again on the directory the first run left
Rerun ==
    /\ pc = "done"
    /\ run = "first"
    /\ run' = "second"
    /\ outAtStart' = outContent
    /\ existedAtStart' = outExists
    /\ pc' = "start"
    /\ csv_files' = <<>>
    /\ all_text' = <<>>
    /\ idx' = 1
    /\ rowIdx' = 1
    /\ row_count' = 0
    /\ merged_text' = <<>>
    /\ console' = <<>>
    /\ outOpens' = 0
    /\ outWrites' = 0
    /\ UNCHANGED <<disk, openFiles, error>>

Next ==
    \/ Start
    \/ LoopNext
    \/ LoopEnd
    \/ OpenSource
    \/ OpenSourceFails
    \/ CheckNoHeader
    \/ CheckSkip
    \/ CheckOk
    \/ ReadRow
    \/ ReadShortRow
    \/ EndRows
    \/ Merge
    \/ OpenOutput
    \/ OpenOutputFails
    \/ WriteOutput
    \/ Summary
    \/ Rerun

Spec == Init /\ [][Next]_vars

----------------------------------------------------------------------------
(* Vocabulary of the properties, stated without the operators of the model *)

HasTextColumn(f) == f.hasHeader /\ \E i \in 1..Len(f.fieldnames) : f.fieldnames[i] = "Text"

\* the row has a value under Text (the header names Text at a position the
\* row reaches)
HasTextValue(f, row) ==
    \E i \in 1..Len(f.fieldnames) : f.fieldnames[i] = "Text" /\ i <= Len(row)

TextValue(f, row) ==
    row[CHOOSE i \in 1..Len(f.fieldnames) : f.fieldnames[i] = "Text" /\ i <= Len(row)]

HasNonSpace(v) == \E i \in 1..Len(v) : v[i] \notin {" ", "\t"}

\* e is v without its leading and trailing whitespace
IsTrimOf(e, v) ==
    \E i \in 1..(Len(v) + 1) : \E j \in 0..Len(v) :
        /\ i <= j + 1
        /\ e = SubSeq(v, i, j)
        /\ \A k \in 1..(i - 1) : v[k] \in {" ", "\t"}
        /\ \A k \in (j + 1)..Len(v) : v[k] \in {" ", "\t"}
        /\ i <= j => (v[i] \notin {" ", "\t"} /\ v[j] \notin {" ", "\t"})

Pieces(v) == {SubSeq(v, i, j) : i \in 1..(Len(v) + 1), j \in 0..Len(v)}

TrimOf(v) == CHOOSE e \in Pieces(v) : IsTrimOf(e, v)

\* the entries the rows k.. of f are to yield, in row order
RECURSIVE EntriesFromRow(_, _)
EntriesFromRow(f, k) ==
    IF k > Len(f.rows) THEN <<>>
    ELSE (IF HasTextValue(f, f.rows[k]) /\ HasNonSpace(TextValue(f, f.rows[k]))
          THEN <<TrimOf(TextValue(f, f.rows[k]))>>
          ELSE <<>>) \o EntriesFromRow(f, k + 1)

EntriesOfFile(f) == IF HasTextColumn(f) THEN EntriesFromRow(f, 1) ELSE <<>>

\* the entries of the discovered files i.., file by file
RECURSIVE EntriesFromFile(_)
EntriesFromFile(i) ==
    IF i > Len(csv_files) THEN <<>>
    ELSE EntriesOfFile(files[csv_files[i]]) \o EntriesFromFile(i + 1)

\* where entry k starts in the joined string, less one
RECURSIVE Offset(_, _)
Offset(E, k) == IF k <= 1 THEN 0 ELSE Offset(E, k - 1) + Len(E[k - 1]) + 1

\* s is the entries of E in order with exactly one space between
\* consecutive entries and nothing before the first or after the last
IsSpaceJoinOf(s, E) ==
    /\ Len(s) = (IF E = <<>> THEN 0 ELSE Offset(E, Len(E)) + Len(E[Len(E)]))
    /\ \A k \in 1..Len(E) :
          /\ SubSeq(s, Offset(E, k) + 1, Offset(E, k) + Len(E[k])) = E[k]
          /\ k < Len(E) => s[Offset(E, k) + Len(E[k]) + 1] = " "

Written == pc \in {"summary", "done"}

Merged == pc \in {"write_open", "write", "summary", "done"}

MsgsOf(kinds, name) ==
    {p \in 1..Len(console) : console[p].kind \in kinds /\ console[p].file = name}

CountKind(kind) == Cardinality({p \in 1..Len(console) : console[p].kind = kind})

\* the discovered files whose processing has ended normally
FinishedFiles == {i \in 1..Len(csv_files) : i < idx}

----------------------------------------------------------------------------
(* C1: the string written to merged_vocabulary.txt is the text entries of  *)
(* the discovered files in file-then-row order, with exactly one space     *)
(* between consecutive entries and none before the first or after the last *)
C1_OutputIsOrderedJoin ==
    Written => IsSpaceJoinOf(outContent, EntriesFromFile(1))

C1_Witness ==
    /\ pc = "done"
    /\ Len(csv_files) = 2
    /\ Len(EntriesOfFile(files[csv_files[1]])) >= 1
    /\ Len(EntriesOfFile(files[csv_files[2]])) >= 1
    /\ EntriesOfFile(files[csv_files[1]])[1] # EntriesOfFile(files[csv_files[2]])[1]

C3_AccumulatorClean ==
    \A k \in 1..Len(all_text) :
        /\ all_text[k] # <<>>
        /\ all_text[k][1] \notin {" ", "\t"}
        /\ all_text[k][Len(all_text[k])] \notin {" ", "\t"}

C3_RowStep ==
    /\ (pc = "rows" /\ pc' = "rows" /\ rowIdx' # rowIdx) =>
          LET f == files[csv_files[idx]]
              v == TextValue(f, f.rows[rowIdx])
          IN  /\ rowIdx' = rowIdx + 1
              /\ IF HasNonSpace(v)
                 THEN \E e \in Pieces(v) : IsTrimOf(e, v) /\ all_text' = Append(all_text, e)
                 ELSE all_text' = all_text
    /\ (all_text' # all_text) => ((pc = "rows" /\ rowIdx' # rowIdx) \/ all_text' = <<>>)

C3_RowsContributeTrimmedEntries == [](C3_AccumulatorClean) /\ [][C3_RowStep]_vars

C3_Witness ==
    /\ pc = "rows"
    /\ rowIdx = 3
    /\ files[csv_files[idx]].rows[1] = <<(<<"x">>), (<<" ", "\t">>)>>
    /\ files[csv_files[idx]].rows[2] = <<(<<"x">>), (<<" ", "a", " ", " ", "b", " ">>)>>
    /\ all_text = <<(<<"a", " ", " ", "b">>)>>

(* C4: in a completed run the number of Extracted messages equals the      *)
(* number of discovered files whose header contains Text, and every file   *)
(* whose processing has ended printed one processing notice followed       *)
(* directly by exactly one of the warning and the extracted count          *)
C4_OneOutcomeMessagePerFile ==
    /\ pc = "done" =>
          CountKind("Extracted") =
              Cardinality({i \in 1..Len(csv_files) : HasTextColumn(files[csv_files[i]])})
    /\ \A i \in FinishedFiles :
          /\ Cardinality(MsgsOf({"Processing"}, csv_files[i])) = 1
          /\ Cardinality(MsgsOf({"Warning", "Extracted"}, csv_files[i])) = 1
          /\ \A p \in MsgsOf({"Processing"}, csv_files[i]) :
                p + 1 \in MsgsOf({"Warning", "Extracted"}, csv_files[i])

C4_Witness ==
    /\ pc = "done"
    /\ Len(csv_files) = 2
    /\ CountKind("Extracted") = 1
    /\ CountKind("Warning") = 1

(* C5: a second run on the unchanged inputs leaves the output file with    *)
(* the bytes the first run wrote; the output file is never among the       *)
(* discovered inputs                                                       *)
C5_SecondRunSameOutput ==
    /\ \A i \in 1..Len(csv_files) : csv_files[i] # OutName
    /\ (run = "second" /\ Written) => (outExists /\ outContent = outAtStart)

C5_Witness ==
    /\ run = "second"
    /\ pc = "done"
    /\ outContent # <<>>
    /\ Len(csv_files) = 2
    /\ listing[1] = OutName

(* C6: the merged text never begins or ends with a space, and two          *)
(* adjacent spaces in it always lie inside one entry                       *)
C6_NoSeparatorRuns ==
    Merged =>
        /\ merged_text # <<>> => (merged_text[1] # " " /\ merged_text[Len(merged_text)] # " ")
        /\ \A p \in 1..(Len(merged_text) - 1) :
              (merged_text[p] = " " /\ merged_text[p + 1] = " ") =>
                  \E k \in 1..Len(all_text) :
                      /\ Offset(all_text, k) < p
                      /\ p + 1 <= Offset(all_text, k) + Len(all_text[k])
        /\ Written => outContent = merged_text

C6_Witness ==
    /\ pc = "done"
    /\ Len(all_text) = 2
    /\ \E p \in 1..(Len(merged_text) - 1) : merged_text[p] = " " /\ merged_text[p + 1] = " "

(* C7: when no discovered file yields an entry (in particular when no CSV  *)
(* file is discovered) the run completes normally, the output file holds   *)
(* the empty string and both reported counts are 0                         *)
C7_NoEntriesRunCompletes ==
    (pc # "start" /\ \A i \in 1..Len(csv_files) : EntriesOfFile(files[csv_files[i]]) = <<>>) =>
        /\ ~(pc = "crashed" /\ error # "OSError")
        /\ pc = "done" =>
              /\ outExists
              /\ outContent = <<>>
              /\ \E p \in 1..Len(console) : console[p].kind = "Chars" /\ console[p].n = 0
              /\ \E p \in 1..Len(console) : console[p].kind = "Words" /\ console[p].n = 0

(* C8: only an I/O failure ends the run before the output file is written  *)
C8_OnlyIOFailuresTerminate ==
    pc = "crashed" => error = "OSError"

(* C9: at most one file is open at any time; while the script is between   *)
(* source files none is open; the output file is open only after every     *)
(* source file was processed and closed                                    *)
C9_AtMostOneFileOpen ==
    /\ Cardinality(openFiles) <= 1
    /\ pc \in {"start", "loop", "open", "merge", "write_open", "summary", "done"} =>
          openFiles = {}
    /\ pc \in {"check", "rows"} => openFiles = {csv_files[idx]}
    /\ OutName \in openFiles => idx = Len(csv_files) + 1

C9_Witness ==
    /\ pc = "check"
    /\ idx = 2
    /\ ~HasTextColumn(files[csv_files[1]])
    /\ openFiles = {csv_files[2]}

(* C10: the output file is opened and written once per completed run, and  *)
(* not before every discovered file was processed; a run that ends while   *)
(* reading the sources leaves the output file as it was                    *)
C10_OutputWrittenOnceAtEnd ==
    /\ outOpens <= 1
    /\ outWrites <= outOpens
    /\ pc = "done" => (outOpens = 1 /\ outWrites = 1)
    /\ outOpens > 0 =>
          \A i \in 1..Len(csv_files) : MsgsOf({"Warning", "Extracted"}, csv_files[i]) # {}
    /\ outOpens = 0 => (outContent = outAtStart /\ outExists = existedAtStart)

C10_Witness ==
    /\ pc = "crashed"
    /\ error = "AttributeError"
    /\ idx = 2
    /\ outExists
    /\ outContent = <<"o", "l", "d">>

====
